---- MODULE Spec2Model ----
(***************************************************************************)
(* ActionIP Aggregator: the ingest / gate service and its event log.       *)
(*                                                                         *)
(* Time is counted in minutes since 00:00 UTC of day 0.  A timestamp as a  *)
(* client sends it is a string; the model keeps what the code reads from   *)
(* it: the date prefix (ts.split('T')[0]) and the instant it parses to.    *)
(***************************************************************************)
EXTENDS Integers, Sequences, FiniteSets, TLC

VARIABLES
    config,   \* process-wide configuration, read once at start
    build,    \* behaviour of the installed dependencies, fixed per build
    now,      \* the server clock
    files,    \* the event log: the objects under ips/<date>/<safeIp>/
    resp,     \* the last response sent, with the request it answers
    answers,  \* history of the gate answers handed out so far
    headers,  \* the headers of the request that resp answers
    effects,  \* the outward calls that request made, in the order made
    warehouse,\* the rows the BigQuery table received
    external, \* the records the external sink received
    appended, \* number of writes the store has accepted
    dirs,     \* local backend: the directories under ips/
    sweep,    \* GCS backend: the deletions of a retention sweep in flight
    reading   \* GCS backend: the listing a gate call is reading through

vars == <<config, build, now, files, resp, answers, headers, effects,
          warehouse, external, appended, dirs, sweep, reading>>

(***************************************************************************)
(* Bounds of the model.                                                    *)
(***************************************************************************)
MaxFiles == 3          \* objects the event log may hold
MaxPolicyRuns == 2     \* largest MAX_RUNS_PER_IP_PER_DAY tried
MaxAnswers == 3        \* gate answers kept in the history

(***************************************************************************)
(* Values.                                                                 *)
(***************************************************************************)
MinutesPerHour == 60
MinutesPerDay == 24 * MinutesPerHour
DefaultMinGapHours == 7
DefaultRetentionHours == 24

\* An environment variable that is not set.
NoSecret == ""
\* The body of a request that body-parser does not read (no body, or a
\* content type other than JSON): req.body = {}, verify is never called
\* and req.rawBody stays undefined.
EmptyBody == [ip |-> "", run_id |-> "", ts |-> [kind |-> "none", date |-> 0, time |-> 0]]
\* crypto.createHmac('sha256', key).update(data).digest('base64').
createHmac(key, data) == [key |-> key, data |-> data]
\* No x-signature header.
NoSignature == createHmac("", EmptyBody)
\* A request with no Authorization header, no x-signature header and no
\* JSON body; authorization is the header split at spaces, hasBody says
\* whether body-parser read a body, rawBody is what it read.
NoHeaders ==
    [authorization |-> <<>>, signature |-> NoSignature, hasBody |-> FALSE,
     rawBody |-> EmptyBody]
\* No retention sweep in flight.
NoSweep ==
    [running |-> FALSE, victims |-> {}, now |-> 0, headers |-> NoHeaders]

\* No gate call is between its listing and its reads.
NoReading == [active |-> FALSE, body |-> EmptyBody, listed |-> {}]

\* A JSON field that is absent (or empty) is falsy in the handlers.
NoIp == ""
NoRunId == ""

\* Run ids in the order String.prototype.localeCompare gives them.
RunIdOrder == <<"run1", "run2", "run3", "run4">>
RunIds == {RunIdOrder[i] : i \in 1..Len(RunIdOrder)}

\* A timestamp string with date prefix d that parses to instant m.
Iso(d, m) == [kind |-> "iso", date |-> d, time |-> m]
\* A timestamp string with date prefix d whose time part does not parse.
BadTs(d) == [kind |-> "bad", date |-> d, time |-> 0]
\* No ts field in the JSON body.
NoTs == [kind |-> "none", date |-> 0, time |-> 0]
\* A ts field that is not a string: a JSON number.
NumberTs == [kind |-> "number", date |-> 0, time |-> 0]
\* JSON null (last_use_utc of an empty listing).
NullTs == [kind |-> "null", date |-> 0, time |-> 0]

\* JavaScript numbers, as far as the handlers need them: an integer or NaN.
NaN == [nan |-> TRUE, v |-> 0]
Num(v) == [nan |-> FALSE, v |-> v]
Minus(a, b) == IF a.nan \/ b.nan THEN NaN ELSE Num(a.v - b.v)
Sign(n) == IF n < 0 THEN 0 - 1 ELSE IF n > 0 THEN 1 ELSE 0

\* new Date(ts).getTime(): NaN for a missing or unparseable ts.
newDate(ts) == IF ts.kind = "iso" THEN Num(ts.time) ELSE NaN

\* date-fns parseISO(ts): the instant, or Invalid Date; on a ts that is
\* missing or is not a string it returns Invalid Date (date-fns 2) or
\* throws a TypeError (date-fns 3, 4).
parseISO(ts) == newDate(ts)
parseISOThrows(ts) == build.parseISOThrows /\ ts.kind \in {"none", "number"}

\* differenceInHours rounding to the nearest hour.
differenceInHoursRounded(later, earlier) ==
    LET d == Minus(later, earlier)
    IN  IF d.nan THEN NaN
        ELSE IF d.v >= 0
        THEN Num((d.v + MinutesPerHour \div 2) \div MinutesPerHour)
        ELSE Num(0 - ((MinutesPerHour \div 2 - d.v) \div MinutesPerHour))

\* date-fns differenceInHours(later, earlier): truncated toward zero.
differenceInHours(later, earlier) ==
    LET d == Minus(later, earlier)
    IN  IF d.nan THEN NaN
        ELSE IF d.v >= 0 THEN Num(d.v \div MinutesPerHour)
        ELSE Num(0 - ((0 - d.v) \div MinutesPerHour))

\* new Date().toISOString().split('T')[0], as a day number.
getTodayDateString == now \div MinutesPerDay

\* ip.replace(/[^a-zA-Z0-9.:-]/g, '_') on the addresses of the model.
safeIp(ip) ==
    CASE ip = "10.0.0/1" -> "10.0.0_1"
      [] OTHER -> ip

(***************************************************************************)
(* Event log store.                                                        *)
(***************************************************************************)
\* The object appendToGCS writes for a record at the current clock.
newFile(record, rnd) ==
    [dir  |-> IF record.ts.kind = "none" THEN getTodayDateString
              ELSE record.ts.date,
     ip   |-> safeIp(record.ip),
     name |-> <<now, record.run_id, rnd>>,
     rec  |-> record]

samePath(f, g) == f.dir = g.dir /\ f.ip = g.ip /\ f.name = g.name

\* No object is stored yet under the path appendToGCS would write to.
freshPath(record, rnd) == \A f \in files : ~samePath(f, newFile(record, rnd))

\* The log after appendToGCS(record): a write to an existing path replaces
\* the object; a failed write is logged and changes nothing.
appendToGCS(record, rnd, writeOk) ==
    IF writeOk
    THEN {f \in files : ~samePath(f, newFile(record, rnd))}
            \cup {newFile(record, rnd)}
    ELSE files

\* Local backend: the directories after fs.mkdirSync(dir, {recursive: true})
\* for the record's file; the GCS backend has no directories.
mkdirSync(record, mkdirOk) ==
    IF config.STORAGE_TYPE = "local" /\ mkdirOk
    THEN dirs \cup {<<newFile(record, 0).dir>>,
                    <<newFile(record, 0).dir, newFile(record, 0).ip>>}
    ELSE dirs

\* scopeFiles with the directory of the day left out of the prefix.
scopeFilesAnyDay(ip) == {f \in files : f.ip = safeIp(ip)}

\* The objects under ips/<today>/<safeIp>/.
scopeFiles(ip) ==
    {f \in files : f.dir = getTodayDateString /\ f.ip = safeIp(ip)}

\* Every order in which the objects of S can come back from the store.
listings(S) ==
    LET n == Cardinality(S)
        f == CHOOSE g \in [1..n -> S] : \A i, j \in 1..n : i # j => g[i] # g[j]
    IN  {[i \in 1..n |-> f[p[i]].rec] : p \in Permutations(1..n)}

\* The sets of objects getRecordsForIpToday(ip) can have read on the
\* backend type when the reads
\* of the objects in failed do not succeed (the file is unreadable or is
\* not JSON).  GCS backend: each download has its own try/catch, the other
\* objects of the scope are read.  Local backend: one try/catch holds the
\* whole loop, the first failing file ends it, and the files readdirSync
\* lists after that one are not read; the order of readdirSync is that of
\* the file system.
readRecords(type, ip, failed) ==
    IF type = "local" /\ scopeFiles(ip) \cap failed # {}
    THEN SUBSET (scopeFiles(ip) \ failed)
    ELSE {scopeFiles(ip) \ failed}

getRecordsForIpToday(ip, failed) ==
    readRecords(config.STORAGE_TYPE, ip, failed)

(***************************************************************************)
(* Gate decision engine.                                                   *)
(***************************************************************************)
rank(run_id) == CHOOSE i \in 1..Len(RunIdOrder) : RunIdOrder[i] = run_id
localeCompare(a, b) == Sign(rank(a) - rank(b))

\* compareRecords with the run id tie-break left out: records of one instant
\* compare equal.
compareRecordsNoTieBreak(a, b, desc) ==
    LET timeDiff == IF desc THEN Minus(newDate(b.ts), newDate(a.ts))
                    ELSE Minus(newDate(a.ts), newDate(b.ts))
    IN  IF timeDiff.nan THEN NaN ELSE Num(Sign(timeDiff.v))

\* The two sort callbacks of the gate: newest first (desc) for the
\* response fields, oldest first for the replay; both break ties by
\* a.run_id.localeCompare(b.run_id).
compareRecords(a, b, desc) ==
    LET timeDiff == IF desc THEN Minus(newDate(b.ts), newDate(a.ts))
                    ELSE Minus(newDate(a.ts), newDate(b.ts))
    IN  IF timeDiff.nan THEN NaN               \* NaN !== 0
        ELSE IF timeDiff.v # 0 THEN Num(Sign(timeDiff.v))
        ELSE Num(localeCompare(a.run_id, b.run_id))

\* Array.prototype.sort reads a NaN from its callback as +0.
sortCompare(a, b, desc) ==
    LET c == compareRecords(a, b, desc) IN IF c.nan THEN 0 ELSE c.v

\* Whether the callback is a consistent comparator for the elements of arr
\* (ECMAScript, Array.prototype.sort): a = a, a < b iff b > a, and = and <
\* are transitive.  Without a NaN the callback orders by (time, run id),
\* which is consistent.
consistentComparator(arr, desc) ==
    LET n == Len(arr)
        v(i, j) == sortCompare(arr[i], arr[j], desc)
    IN  \/ \A i \in 1..n : ~newDate(arr[i].ts).nan
        \/ \A i, j \in 1..n :
               /\ (i = j => v(i, j) = 0)
               /\ v(i, j) = 0 - v(j, i)
               /\ \A k \in 1..n :
                      /\ (v(i, j) = 0 /\ v(j, k) = 0) => v(i, k) = 0
                      /\ (v(i, j) < 0 /\ v(j, k) < 0) => v(i, k) < 0

RECURSIVE insertSorted(_, _, _)
insertSorted(sorted, x, desc) ==
    IF sorted = <<>> THEN <<x>>
    ELSE LET e == sorted[Len(sorted)]
         IN  IF sortCompare(e, x, desc) <= 0 THEN Append(sorted, x)
             ELSE Append(insertSorted(SubSeq(sorted, 1, Len(sorted) - 1),
                                      x, desc), e)

\* The stable sort of arr under a consistent comparator.
RECURSIVE stableSort(_, _)
stableSort(arr, desc) ==
    IF arr = <<>> THEN <<>>
    ELSE insertSorted(stableSort(SubSeq(arr, 1, Len(arr) - 1), desc),
                      arr[Len(arr)], desc)

permutationsOf(arr) ==
    {[i \in 1..Len(arr) |-> arr[p[i]]] : p \in Permutations(1..Len(arr))}

\* What arr.sort(callback) can leave in arr: the stable sort when the
\* callback is a consistent comparator for its elements, an
\* implementation-defined order when it is not.
sortOutcomes(arr, desc, consistent) ==
    IF consistent THEN {stableSort(arr, desc)} ELSE permutationsOf(arr)

\* The replay loop with the gap test left out: every record is accepted.
validRunsNoGapTest(chronRecords) == chronRecords

\* validRuns with the gap measured from the record just before, accepted
\* or not.
RECURSIVE validRunsFromPrevious(_)
validRunsFromPrevious(chronRecords) ==
    IF chronRecords = <<>> THEN <<>>
    ELSE LET n == Len(chronRecords)
             before == validRunsFromPrevious(SubSeq(chronRecords, 1, n - 1))
             rec == chronRecords[n]
         IN  IF before = <<>> THEN <<rec>>
             ELSE LET lastTs == parseISO(chronRecords[n - 1].ts)
                      gap == differenceInHours(parseISO(rec.ts), lastTs)
                  IN  IF ~gap.nan /\ gap.v >= config.MIN_GAP_HOURS_PER_IP
                      THEN Append(before, rec)
                      ELSE before

\* The replay loop: the first record is accepted, a later one if it is at
\* least MIN_GAP_HOURS_PER_IP whole hours after the last accepted one.
RECURSIVE validRuns(_)
validRuns(chronRecords) ==
    IF chronRecords = <<>> THEN <<>>
    ELSE LET n == Len(chronRecords)
             before == validRuns(SubSeq(chronRecords, 1, n - 1))
             rec == chronRecords[n]
         IN  IF before = <<>> THEN <<rec>>
             ELSE LET lastValidTs == parseISO(before[Len(before)].ts)
                      gap == differenceInHours(parseISO(rec.ts), lastValidTs)
                  IN  IF ~gap.nan /\ gap.v >= config.MIN_GAP_HOURS_PER_IP
                      THEN Append(before, rec)
                      ELSE before

\* validRuns.findIndex(r => r.run_id === myRunId), 0-based, -1 if none.
findIndex(runs, myRunId) ==
    LET hits == {i \in 1..Len(runs) : runs[i].run_id = myRunId}
    IN  IF hits = {} THEN 0 - 1
        ELSE (CHOOSE i \in hits : \A j \in hits : i <= j) - 1

result(should_run, reason, uses_today, last_use_utc) ==
    [status |-> 200, should_run |-> should_run, reason |-> reason,
     uses_today |-> uses_today, last_use_utc |-> last_use_utc]

\* const currentRequestTime = ts ? parseISO(ts) : new Date() throws: the
\* value is never read, the call is made when the request has a ts.
currentRequestTimeThrows(body) ==
    body.ts.kind # "none" /\ parseISOThrows(body.ts)

\* decide with the quota test left out.
decideNoQuota(body, sorted, chronRecords) ==
    LET uses_today == Len(sorted)
        last_use_utc == IF Len(sorted) > 0 THEN sorted[1].ts ELSE NullTs
        runs == validRuns(chronRecords)
        myValidIndex == findIndex(runs, body.run_id)
    IN  IF \/ currentRequestTimeThrows(body)
           \/ \E i \in 1..Len(chronRecords) :
                  parseISOThrows(chronRecords[i].ts)
        THEN result(TRUE, "error_fail_open", uses_today, last_use_utc)
        ELSE IF myValidIndex < 0
        THEN result(FALSE, "gap_not_satisfied", uses_today, last_use_utc)
        ELSE result(TRUE, "", uses_today, last_use_utc)

\* decide with the quota test written myValidIndex > MAX_RUNS_PER_IP_PER_DAY.
decideQuotaOffByOne(body, sorted, chronRecords) ==
    LET uses_today == Len(sorted)
        last_use_utc == IF Len(sorted) > 0 THEN sorted[1].ts ELSE NullTs
        runs == validRuns(chronRecords)
        myValidIndex == findIndex(runs, body.run_id)
    IN  IF \/ currentRequestTimeThrows(body)
           \/ \E i \in 1..Len(chronRecords) :
                  parseISOThrows(chronRecords[i].ts)
        THEN result(TRUE, "error_fail_open", uses_today, last_use_utc)
        ELSE IF myValidIndex < 0
        THEN result(FALSE, "gap_not_satisfied", uses_today, last_use_utc)
        ELSE IF myValidIndex > config.MAX_RUNS_PER_IP_PER_DAY
        THEN result(FALSE, "max_runs_reached", uses_today, last_use_utc)
        ELSE result(TRUE, "", uses_today, last_use_utc)

\* The body of the try block once records is sorted (sorted: newest first,
\* chronRecords: oldest first).  currentRequestTime is computed from the
\* request's ts and never read; an exception of either parseISO call is
\* caught by the handler, which answers fail-open with the fields set so far.
decide(body, sorted, chronRecords) ==
    LET uses_today == Len(sorted)
        last_use_utc == IF Len(sorted) > 0 THEN sorted[1].ts ELSE NullTs
        runs == validRuns(chronRecords)
        myValidIndex == findIndex(runs, body.run_id)
    IN  IF \/ currentRequestTimeThrows(body)
           \/ \E i \in 1..Len(chronRecords) :
                  parseISOThrows(chronRecords[i].ts)
        THEN result(TRUE, "error_fail_open", uses_today, last_use_utc)
        ELSE IF myValidIndex < 0
        THEN result(FALSE, "gap_not_satisfied", uses_today, last_use_utc)
        ELSE IF myValidIndex >= config.MAX_RUNS_PER_IP_PER_DAY
        THEN result(FALSE, "max_runs_reached", uses_today, last_use_utc)
        ELSE result(TRUE, "", uses_today, last_use_utc)

\* gateOutcomes with the replay run over the newest-first order: the second
\* sort is left out.
gateOutcomesNoChronSort(body, recordsSet) ==
    LET consistent ==
            consistentComparator(CHOOSE records \in recordsSet : TRUE, TRUE)
        sortedSet == UNION {sortOutcomes(records, TRUE, consistent) :
                               records \in recordsSet}
    IN  {decide(body, sorted, sorted) : sorted \in sortedSet}

\* Every response the gate can give to body when the store returns one of
\* the listings in recordsSet, all of them orders of the same records.  The
\* two callbacks differ in the sign of the time difference only, so one is
\* consistent on these records, in whatever order, iff the other is.
gateOutcomes(body, recordsSet) ==
    LET consistent ==
            consistentComparator(CHOOSE records \in recordsSet : TRUE, TRUE)
        sortedSet == UNION {sortOutcomes(records, TRUE, consistent) :
                               records \in recordsSet}
    IN  UNION {{decide(body, sorted, chronRecords) :
                    chronRecords \in sortOutcomes(sorted, FALSE, consistent)} :
               sorted \in sortedSet}

(***************************************************************************)
(* Handlers.                                                               *)
(***************************************************************************)
\* No response body of the service carries a count of deleted records: the
\* body of the answer to POST /cleanup is {status: 'cleanup initiated'}.
NoCount == -1

NoResp ==
    [op |-> "none", status |-> 0, should_run |-> FALSE, reason |-> "",
     uses_today |-> 0, last_use_utc |-> NullTs,
     req |-> [ip |-> NoIp, run_id |-> NoRunId],
     seen |-> {}, failed |-> {}, deleted |-> NoCount]

send(op, r, body, seen, failed) ==
    [op |-> op, status |-> r.status, should_run |-> r.should_run,
     reason |-> r.reason, uses_today |-> r.uses_today,
     last_use_utc |-> r.last_use_utc,
     req |-> [ip |-> body.ip, run_id |-> body.run_id],
     seen |-> seen, failed |-> failed, deleted |-> NoCount]

\* res.status(status).send(text): a response that is not a gate verdict.
plain(status) == [result(FALSE, "", 0, NullTs) EXCEPT !.status = status]

\* One outward call of a handler and whether it succeeded.
call(name, ok) == [call |-> name, ok |-> ok]
respond == call("respond", TRUE)

\* What a request meets outside the process: rnd is the random suffix of
\* the file name, the flags say whether the directory creation, the write,
\* the BigQuery insert and the post to the external sink succeed,
\* undeleted are the files a sweep fails to delete.
okEnv ==
    [rnd |-> 0, mkdirOk |-> TRUE, writeOk |-> TRUE, bqOk |-> TRUE,
     sinkOk |-> TRUE, undeleted |-> {}]

\* The table after insertIntoBigQuery(record): nothing without a client,
\* errors are logged and swallowed.
insertIntoBigQuery(record, bqOk) ==
    IF build.bigquery /\ bqOk THEN warehouse \cup {record} ELSE warehouse

\* The external sink after axios.post(EXTERNAL_SINK_URL, record).catch(..).
postExternalSink(record, sinkOk) ==
    IF config.EXTERNAL_SINK_URL /\ sinkOk
    THEN external \cup {record} ELSE external

\* The outward calls of an accepted POST /ingest, in program order.
ingestEffects(env) ==
    <<call("append", env.writeOk)>>
      \o (IF build.bigquery THEN <<call("bigquery", env.bqOk)>> ELSE <<>>)
      \o (IF config.EXTERNAL_SINK_URL THEN <<call("sink", env.sinkOk)>>
          ELSE <<>>)
      \o <<respond>>

\* ingestStatus with a failed write of the store reported to the caller.
ingestStatusReportsWrite(body, env) ==
    IF body.ip = NoIp \/ body.run_id = NoRunId THEN 400
    ELSE IF env.writeOk THEN 200 ELSE 500

\* ingestStatus with the daily quota enforced at ingest.
ingestStatusEnforcesQuota(body, env) ==
    IF body.ip = NoIp \/ body.run_id = NoRunId THEN 400
    ELSE IF Cardinality(scopeFiles(body.ip)) >= config.MAX_RUNS_PER_IP_PER_DAY
    THEN 429
    ELSE 200

\* The status POST /ingest answers with: the failures of the store and of
\* the sinks are caught and logged where they happen.
ingestStatus(body, env) ==
    IF body.ip = NoIp \/ body.run_id = NoRunId THEN 400 ELSE 200

\* ingest with the record appended before its fields are looked at.
ingestAppendsFirst(body, env) ==
    /\ resp = NoResp
    /\ appended < MaxFiles
    /\ files' = appendToGCS(body, env.rnd, env.writeOk)
    /\ dirs' = mkdirSync(body, env.mkdirOk \/ env.writeOk)
    /\ appended' = IF env.writeOk THEN appended + 1 ELSE appended
    /\ warehouse' = insertIntoBigQuery(body, env.bqOk)
    /\ external' = postExternalSink(body, env.sinkOk)
    /\ resp' = send("ingest", plain(ingestStatus(body, env)), body, {}, {})
    /\ effects' = IF ingestStatus(body, env) = 400 THEN <<respond>>
                  ELSE ingestEffects(env)
    /\ UNCHANGED <<config, build, now, sweep>>

\* POST /ingest with JSON body, past the authentication.
ingest(body, env) ==
    /\ resp = NoResp
    /\ IF body.ip = NoIp \/ body.run_id = NoRunId
       THEN /\ resp' = send("ingest", plain(ingestStatus(body, env)), body,
                            {}, {})
            /\ effects' = <<respond>>
            /\ UNCHANGED <<files, dirs, appended, warehouse, external>>
       ELSE /\ appended < MaxFiles
            /\ files' = appendToGCS(body, env.rnd, env.writeOk)
            /\ dirs' = mkdirSync(body, env.mkdirOk \/ env.writeOk)
            /\ appended' = IF env.writeOk THEN appended + 1 ELSE appended
            /\ warehouse' = insertIntoBigQuery(body, env.bqOk)
            /\ external' = postExternalSink(body, env.sinkOk)
            /\ resp' = send("ingest", plain(ingestStatus(body, env)), body,
                            {}, {})
            /\ effects' = ingestEffects(env)
    /\ UNCHANGED <<config, build, now, sweep>>

\* gateResponses with a missing address answered as ingest answers it, by a
\* 400, instead of failing open.
gateResponsesRejectNoIp(body, seen) ==
    IF body.ip = NoIp
    THEN {plain(400)}
    ELSE gateOutcomes(body, listings(seen))

\* Every response the gate can give to body when the store returns the
\* records of the objects in seen, in any order.
gateResponses(body, seen) ==
    IF body.ip = NoIp
    THEN {result(TRUE, "error_fail_open", 0, NullTs)}
    ELSE gateOutcomes(body, listings(seen))

\* gateEffects with the notification posted before the answer is sent.
gateEffectsNotifyFirst(body, failed, r, notifyOk) ==
    (IF body.ip = NoIp THEN <<>>
     ELSE <<call("list", scopeFiles(body.ip) \cap failed = {})>>)
      \o (IF r.should_run /\ r.reason = "" /\ config.DISCORD_WEBHOOK_URL
          THEN <<call("notify", notifyOk)>> ELSE <<>>)
      \o <<respond>>

\* The outward calls of a POST /gate that answers r, in program order: the
\* notification is fired after res.json, and only where the replay admits.
gateEffects(body, failed, r, notifyOk) ==
    (IF body.ip = NoIp THEN <<>>
     ELSE <<call("list", scopeFiles(body.ip) \cap failed = {})>>)
      \o <<respond>>
      \o (IF r.should_run /\ r.reason = "" /\ config.DISCORD_WEBHOOK_URL
          THEN <<call("notify", notifyOk)>> ELSE <<>>)

\* POST /gate with JSON body, past the authentication; failed are the
\* objects whose read fails, notifyOk whether the webhook accepts the post.
gate(body, failed, notifyOk) ==
    /\ resp = NoResp
    /\ \E seen \in (IF body.ip = NoIp THEN {{}}
                    ELSE getRecordsForIpToday(body.ip, failed)) :
           \E r \in gateResponses(body, seen) :
               /\ resp' = send("gate", r, body, seen,
                               IF body.ip = NoIp THEN {}
                               ELSE scopeFiles(body.ip) \cap failed)
               /\ effects' = gateEffects(body, failed, r, notifyOk)
    /\ UNCHANGED <<config, build, now, files, dirs, appended, warehouse,
                   external, sweep>>

\* GCS backend, POST /gate up to the answer of bucket.getFiles({prefix}):
\* the objects of the scope are listed, none is read yet.
gateList(body) ==
    /\ resp = NoResp
    /\ config.STORAGE_TYPE = "gcs"
    /\ body.ip # NoIp
    /\ ~reading.active
    /\ reading' = [active |-> TRUE, body |-> body,
                   listed |-> scopeFiles(body.ip)]
    /\ UNCHANGED <<config, build, now, files, resp, effects, dirs, appended,
                   warehouse, external, sweep>>

\* gateRead with a download that fails ending the read of the listing: no
\* record is returned.
gateReadOneCatch(failed, notifyOk) ==
    /\ resp = NoResp
    /\ reading.active
    /\ LET held == {f \in files : \E g \in reading.listed : samePath(f, g)}
           gone == {g \in reading.listed :
                       \A f \in files \ failed : ~samePath(f, g)}
           seen == IF gone = {} THEN held ELSE {}
       IN  \E r \in gateResponses(reading.body, seen) :
               /\ resp' = send("gate", r, reading.body, seen, gone)
               /\ effects' = gateEffects(reading.body, failed, r, notifyOk)
    /\ reading' = NoReading
    /\ UNCHANGED <<config, build, now, files, dirs, appended, warehouse,
                   external, sweep>>

\* GCS backend, the rest of POST /gate: file.download() of every object
\* listed.  The download of an object that was deleted since the listing,
\* or whose read fails, throws inside its own try/catch: its record is left
\* out and the decision is made on the others.
gateRead(failed, notifyOk) ==
    /\ resp = NoResp
    /\ reading.active
    /\ LET held == {f \in files : \E g \in reading.listed : samePath(f, g)}
           gone == {g \in reading.listed :
                       \A f \in files \ failed : ~samePath(f, g)}
           seen == held \ failed
       IN  \E r \in gateResponses(reading.body, seen) :
               /\ resp' = send("gate", r, reading.body, seen, gone)
               /\ effects' = gateEffects(reading.body, failed, r, notifyOk)
    /\ reading' = NoReading
    /\ UNCHANGED <<config, build, now, files, dirs, appended, warehouse,
                   external, sweep>>

\* expired with a file deleted as soon as its age reaches the horizon.
expiredAtHorizon(f) ==
    now - f.name[1] >= config.RETENTION_HOURS * MinutesPerHour

\* fs.unlinkSync / file.delete() runs on a file when the sweep's clock
\* reading exceeds its creation time by more than the retention horizon.
expired(f) ==
    now - f.name[1] > config.RETENTION_HOURS * MinutesPerHour

\* walkFiles with one file deleted in a pass.
walkFilesOneAPass(undeleted) ==
    IF \E f \in files \ undeleted : expired(f)
    THEN {files \ {f} : f \in {g \in files \ undeleted : expired(g)}}
    ELSE {files}

\* Local backend, walk(ips): the sets of files a walk can leave when
\* fs.unlinkSync fails on the files in undeleted.  The exception ends the
\* forEach of the address directory the file is in (the walk of that
\* directory is an async function nobody awaits, so nothing is reported),
\* and the expired files readdirSync lists after it stay; the walk of the
\* other directories goes on.
walkFiles(undeleted) ==
    LET stuck == {f \in files : expired(f) /\ f \in undeleted}
        skipped == {f \in files \ stuck :
                       /\ expired(f)
                       /\ \E g \in stuck : g.dir = f.dir /\ g.ip = f.ip}
    IN  {{f \in files : ~expired(f)} \cup stuck \cup S : S \in SUBSET skipped}

\* walkDirs without the removal of empty directories.
walkDirsKeepsEmpty(left) == dirs

\* Local backend: the directories left once every directory found empty
\* after its own walk is removed, left being the files the walk leaves.
walkDirs(left) ==
    {d \in dirs :
        \E f \in left :
            f.dir = d[1] /\ (Len(d) = 2 => f.ip = d[2])}

\* POST /cleanup, past the authentication; undeleted are the files whose
\* deletion fails.  The local sweep is synchronous
\* and is answered at once; the GCS sweep reads the clock, lists the bucket
\* and starts the deletions, which complete later.
cleanup(h, undeleted) ==
    /\ resp = NoResp
    /\ ~sweep.running
    /\ IF config.STORAGE_TYPE = "local"
       THEN /\ \E left \in walkFiles(undeleted) :
                   /\ files' = left
                   /\ dirs' = walkDirs(left)
            /\ resp' = send("cleanup", plain(200), EmptyBody, {},
                            {f \in undeleted \cap files : expired(f)})
            /\ effects' = <<call("sweep",
                                 \A f \in undeleted \cap files : ~expired(f)),
                            respond>>
            /\ UNCHANGED sweep
       ELSE /\ sweep' = [running |-> TRUE,
                         victims |-> {f \in files : expired(f)},
                         now |-> now,
                         headers |-> h]
            /\ UNCHANGED <<files, dirs, resp, effects>>
    /\ UNCHANGED <<config, build, now, appended, warehouse, external>>

\* GCS backend: the deletions of the sweep settle, those of the objects in
\* undeleted fail; cleanupGCS logs the error and the handler answers 200.
cleanupDone(undeleted) ==
    /\ resp = NoResp
    /\ sweep.running
    /\ files' = files \ (sweep.victims \ undeleted)
    /\ sweep' = NoSweep
    /\ headers' = sweep.headers
    /\ resp' = send("cleanup", plain(200), EmptyBody, {},
                    sweep.victims \cap undeleted \cap files)
    /\ effects' = <<call("sweep", sweep.victims \cap undeleted = {}), respond>>
    /\ UNCHANGED <<config, build, now, dirs, appended, warehouse, external>>

\* The clock advances by step minutes.
tick(step) ==
    /\ now' = now + step
    /\ UNCHANGED <<config, build, files, resp, effects, dirs, appended,
                   warehouse, external, sweep>>

\* The outcome of the verifyAuth middleware: the status it answers with, or
\* next when it hands the request to the route.
next == 0

\* verifyAuth without the comparison of the token.
verifyAuthNoTokenCheck(h, body) ==
    IF Len(h.authorization) < 2 \/ h.authorization[1] # "Bearer"
    THEN 401
    ELSE next

\* verifyAuth that demands a signature whenever a secret is configured.
verifyAuthRequiresSignature(h, body) ==
    IF Len(h.authorization) < 2 \/ h.authorization[1] # "Bearer"
    THEN 401
    ELSE IF h.authorization[2] # config.COLLECTOR_TOKEN
    THEN 403
    ELSE IF config.HMAC_SECRET # NoSecret
    THEN IF h.signature = NoSignature
         THEN 401
         ELSE IF ~h.hasBody
         THEN 500
         ELSE IF h.signature # createHmac(config.HMAC_SECRET, body)
         THEN 401
         ELSE next
    ELSE next

verifyAuth(h, body) ==
    IF Len(h.authorization) < 2 \/ h.authorization[1] # "Bearer"
    THEN 401
    ELSE IF h.authorization[2] # config.COLLECTOR_TOKEN
    THEN 403
    ELSE IF config.HMAC_SECRET # NoSecret /\ h.signature # NoSignature
    THEN IF ~h.hasBody
         THEN 500   \* hmac.update(undefined) throws in the middleware
         ELSE IF h.signature # createHmac(config.HMAC_SECRET, body)
         THEN 401
         ELSE next
    ELSE next

\* A request the middleware answers itself: no route handler runs.
rejected(op, status, body) ==
    /\ resp = NoResp
    /\ resp' = send(op, plain(status), body, {}, {})
    /\ effects' = <<respond>>
    /\ UNCHANGED <<config, build, now, files, dirs, appended, warehouse,
                   external, sweep>>

\* A request with headers h and JSON body (EmptyBody when it has none).
request(op, h, body, env) ==
    /\ headers' = h
    /\ IF verifyAuth(h, body) # next
       THEN rejected(op, verifyAuth(h, body), body)
       ELSE CASE op = "ingest" -> ingest(body, env)
              [] op = "gate" -> gate(body, env.failed, env.notifyOk)
              [] op = "cleanup" -> cleanup(h, env.undeleted)

\* The caller receives the response; the server is ready for the next
\* request.
receive ==
    /\ resp # NoResp
    /\ resp' = NoResp
    /\ effects' = <<>>
    /\ UNCHANGED <<config, build, now, files, dirs, appended, warehouse,
                   external, sweep>>

(***************************************************************************)
(* Initial states.                                                         *)
(***************************************************************************)
Init ==
    /\ config \in [MAX_RUNS_PER_IP_PER_DAY : 1..MaxPolicyRuns,
                   MIN_GAP_HOURS_PER_IP : {0, DefaultMinGapHours},
                   COLLECTOR_TOKEN : {"collector-token"},
                   HMAC_SECRET : {NoSecret, "hmac-secret"},
                   STORAGE_TYPE : {"gcs", "local"},
                   RETENTION_HOURS : {DefaultRetentionHours},
                   EXTERNAL_SINK_URL : BOOLEAN,
                   DISCORD_WEBHOOK_URL : BOOLEAN]
    /\ build \in [parseISOThrows : BOOLEAN, bigquery : BOOLEAN]
    /\ build.bigquery => config.STORAGE_TYPE = "gcs"
    /\ now = 0
    /\ files = {}
    /\ resp = NoResp
    /\ answers = <<>>
    /\ headers = NoHeaders
    /\ effects = <<>>
    /\ warehouse = {}
    /\ external = {}
    /\ appended = 0
    /\ dirs = {}
    /\ sweep = NoSweep
    /\ reading = NoReading

\* A deployment on the GCS backend with no sink, no notifier and no request
\* signing configured.
bareDeployment ==
    /\ config.STORAGE_TYPE = "gcs"
    /\ config.HMAC_SECRET = NoSecret
    /\ ~config.EXTERNAL_SINK_URL
    /\ ~config.DISCORD_WEBHOOK_URL
    /\ ~build.bigquery

(***************************************************************************)
(* The decision engine on one scope: every record is for one address and   *)
(* the current day, every read succeeds.                                   *)
(***************************************************************************)
DecideIp == "10.0.0.1"
DecideTimestamps ==
    {Iso(0, 0), Iso(0, 7 * MinutesPerHour - 1), Iso(0, 7 * MinutesPerHour),
     Iso(0, 14 * MinutesPerHour), BadTs(0)}

InitDecide == Init /\ bareDeployment /\ ~build.parseISOThrows

DecideIngest ==
    /\ \E run_id \in RunIds, ts \in DecideTimestamps :
           LET body == [ip |-> DecideIp, run_id |-> run_id, ts |-> ts]
           IN  freshPath(body, 0) /\ ingest(body, okEnv)
    /\ UNCHANGED <<answers, headers, reading>>

DecideGate ==
    /\ \E run_id \in RunIds \cup {NoRunId} :
           gate([ip |-> DecideIp, run_id |-> run_id, ts |-> NoTs], {}, TRUE)
    /\ UNCHANGED <<answers, headers, reading>>

DecideReceive == receive /\ UNCHANGED <<answers, headers, reading>>

NextDecide == DecideIngest \/ DecideGate \/ DecideReceive

SpecDecide == InitDecide /\ [][NextDecide]_vars

(***************************************************************************)
(* The service with a failing store and incomplete requests: reads and     *)
(* writes may fail, records may come without a timestamp, requests without *)
(* an address or a run id.                                                 *)
(***************************************************************************)
FaultRunIds == {RunIdOrder[1], RunIdOrder[2], RunIdOrder[3]}
FaultTimestamps == {Iso(0, 0), Iso(0, 7 * MinutesPerHour), NoTs}

\* The ts of a gate request: absent, a timestamp, a string that does not
\* parse, a number.
CallerTimestamps == {NoTs, Iso(0, 0), BadTs(0), NumberTs}

FaultIngest ==
    /\ \E ip \in {DecideIp, NoIp}, run_id \in FaultRunIds \cup {NoRunId},
          ts \in FaultTimestamps, writeOk \in BOOLEAN :
           LET body == [ip |-> ip, run_id |-> run_id, ts |-> ts]
           IN  freshPath(body, 0) /\ ingest(body, [okEnv EXCEPT !.writeOk = writeOk])
    /\ UNCHANGED <<answers, headers, reading>>

FaultGate ==
    /\ \E ip \in {DecideIp, NoIp}, run_id \in FaultRunIds \cup {NoRunId},
          ts \in CallerTimestamps, failed \in SUBSET files :
           gate([ip |-> ip, run_id |-> run_id, ts |-> ts], failed, TRUE)
    /\ UNCHANGED <<answers, headers, reading>>

FaultReceive == receive /\ UNCHANGED <<answers, headers, reading>>

NextFaults == FaultIngest \/ FaultGate \/ FaultReceive

InitFaults == Init /\ bareDeployment

SpecFaults == InitFaults /\ [][NextFaults]_vars

(***************************************************************************)
(* Callers that report first and ask afterwards, their records arriving    *)
(* in any order, with the answers they were given kept.                    *)
(***************************************************************************)
HistoryRunIds == {RunIdOrder[1], RunIdOrder[2], RunIdOrder[3]}
HistoryTimestamps ==
    {Iso(0, 0), Iso(0, 2 * MinutesPerHour), Iso(0, 7 * MinutesPerHour)}

InitHistory ==
    /\ Init
    /\ bareDeployment
    /\ config.MIN_GAP_HOURS_PER_IP = DefaultMinGapHours
    /\ ~build.parseISOThrows

answer ==
    [ip |-> resp.req.ip, run_id |-> resp.req.run_id, seen |-> resp.seen,
     should_run |-> resp.should_run, reason |-> resp.reason]

HistoryIngest ==
    /\ \E run_id \in HistoryRunIds, ts \in HistoryTimestamps :
           LET body == [ip |-> DecideIp, run_id |-> run_id, ts |-> ts]
           IN  freshPath(body, 0) /\ ingest(body, okEnv)
    /\ UNCHANGED <<answers, headers, reading>>

HistoryGate ==
    /\ Len(answers) < MaxAnswers
    /\ \E run_id \in {f.rec.run_id : f \in files} :
           gate([ip |-> DecideIp, run_id |-> run_id, ts |-> NoTs], {}, TRUE)
    /\ UNCHANGED <<answers, headers, reading>>

HistoryReceive ==
    /\ receive
    /\ UNCHANGED <<headers, reading>>
    /\ answers' = IF resp.op = "gate" THEN Append(answers, answer)
                  ELSE answers

NextHistory == HistoryIngest \/ HistoryGate \/ HistoryReceive

SpecHistory == InitHistory /\ [][NextHistory]_vars

(***************************************************************************)
(* The service behind its authentication, with the warehouse, the external *)
(* sink and the notifier configured or not, and each of them failing or    *)
(* not; requests are served one after the other.                           *)
(***************************************************************************)
ServiceRunIds == {RunIdOrder[1], RunIdOrder[2]}
ServiceBodies ==
    {[ip |-> ip, run_id |-> run_id, ts |-> Iso(0, 0)] :
        ip \in {DecideIp, NoIp}, run_id \in ServiceRunIds \cup {NoRunId}}

\* Authorization headers: none, another scheme, a wrong token, the token,
\* the token followed by another word.
ServiceAuthorizations ==
    {<<>>, <<"Basic", "collector-token">>, <<"Bearer", "wrong-token">>,
     <<"Bearer", "collector-token">>, <<"Bearer", "collector-token", "x">>}

\* x-signature headers for body: the HMAC of the body, the HMAC of the body
\* under another key, the HMAC of another body.
ServiceSignatures(body) ==
    {createHmac("hmac-secret", body),
     createHmac("other-secret", body),
     createHmac("hmac-secret", [body EXCEPT !.run_id = RunIdOrder[3]])}

\* The headers tried: every Authorization header without a signature, and
\* every signature behind the valid token.
ServiceHeaders(body, hasBody) ==
    {[authorization |-> a, signature |-> NoSignature, hasBody |-> hasBody,
      rawBody |-> body] : a \in ServiceAuthorizations}
    \cup {[authorization |-> <<"Bearer", "collector-token">>,
           signature |-> g, hasBody |-> hasBody, rawBody |-> body] :
              g \in ServiceSignatures(body)}

\* The requests tried: each body under each of the headers, and the
\* request without a body.
ServiceRequests ==
    UNION {{[h |-> h, body |-> body] : h \in ServiceHeaders(body, TRUE)} :
              body \in ServiceBodies}
    \cup {[h |-> h, body |-> EmptyBody] :
              h \in ServiceHeaders(EmptyBody, FALSE)}

InitService ==
    /\ Init
    /\ config.MIN_GAP_HOURS_PER_IP = DefaultMinGapHours
    /\ config.MAX_RUNS_PER_IP_PER_DAY = 1
    /\ config.STORAGE_TYPE = "gcs"
    /\ ~build.parseISOThrows

ServiceIngest ==
    /\ ~sweep.running
    /\ \E r \in ServiceRequests,
          writeOk \in BOOLEAN, bqOk \in BOOLEAN, sinkOk \in BOOLEAN :
           /\ freshPath(r.body, 0)
           /\ request("ingest", r.h, r.body,
                      [okEnv EXCEPT !.writeOk = writeOk, !.bqOk = bqOk,
                                    !.sinkOk = sinkOk])
    /\ UNCHANGED <<answers, reading>>

ServiceGate ==
    /\ ~sweep.running
    /\ \E r \in ServiceRequests, notifyOk \in BOOLEAN :
           request("gate", r.h, r.body,
                   [failed |-> {}, notifyOk |-> notifyOk])
    /\ UNCHANGED <<answers, reading>>

ServiceCleanup ==
    /\ \E r \in ServiceRequests :
           r.body = EmptyBody /\ request("cleanup", r.h, r.body, okEnv)
    /\ UNCHANGED <<answers, reading>>

ServiceCleanupDone == cleanupDone({}) /\ UNCHANGED <<answers, reading>>

ServiceReceive == receive /\ headers' = NoHeaders /\ UNCHANGED <<answers, reading>>

NextService ==
    \/ ServiceIngest
    \/ ServiceGate
    \/ ServiceCleanup
    \/ ServiceCleanupDone
    \/ ServiceReceive

SpecService == InitService /\ [][NextService]_vars

(***************************************************************************)
(* The store over two days: the clock advances, records are written under  *)
(* the day of their timestamp (or of the clock), the retention sweep runs  *)
(* on either backend, on GCS with requests served while its deletions are  *)
(* in flight.                                                              *)
(***************************************************************************)
\* Clock readings: the start of day 0, a minute later, and the same two a
\* retention horizon (one day) later.
ClockReadings == {0, 1, MinutesPerDay, MinutesPerDay + 1}
ClockRunIds == {RunIdOrder[1], RunIdOrder[2]}
ClockTimestamps == {Iso(0, 0), NoTs}

InitClock ==
    /\ Init
    /\ config.MIN_GAP_HOURS_PER_IP = 0
    /\ config.MAX_RUNS_PER_IP_PER_DAY = MaxPolicyRuns
    /\ config.HMAC_SECRET = NoSecret
    /\ ~config.EXTERNAL_SINK_URL
    /\ ~config.DISCORD_WEBHOOK_URL
    /\ ~build.bigquery
    /\ ~build.parseISOThrows

ClockTick ==
    /\ \E t \in ClockReadings : t > now /\ tick(t - now)
    /\ UNCHANGED <<answers, headers, reading>>

ClockIngest ==
    /\ \E run_id \in ClockRunIds, ts \in ClockTimestamps,
          writeOk \in BOOLEAN :
           LET body == [ip |-> DecideIp, run_id |-> run_id, ts |-> ts]
           IN  /\ freshPath(body, 0)
               /\ ingest(body, [okEnv EXCEPT !.writeOk = writeOk])
    /\ UNCHANGED <<answers, headers, reading>>

ClockGate ==
    /\ \E run_id \in {f.rec.run_id : f \in files}, failed \in SUBSET files :
           gate([ip |-> DecideIp, run_id |-> run_id, ts |-> NoTs], failed,
                TRUE)
    /\ UNCHANGED <<answers, headers, reading>>

ClockCleanup ==
    /\ \E undeleted \in SUBSET files : cleanup(NoHeaders, undeleted)
    /\ UNCHANGED <<answers, headers, reading>>

ClockCleanupDone ==
    /\ \E undeleted \in SUBSET sweep.victims : cleanupDone(undeleted)
    /\ UNCHANGED <<answers, reading>>

ClockReceive == receive /\ UNCHANGED <<answers, headers, reading>>

NextClock ==
    \/ ClockTick
    \/ ClockIngest
    \/ ClockGate
    \/ ClockCleanup
    \/ ClockCleanupDone
    \/ ClockReceive

SpecClock == InitClock /\ [][NextClock]_vars

(***************************************************************************)
(* Appends to one scope with the random suffix of the file name drawn      *)
(* from two values, within one millisecond or not.                         *)
(***************************************************************************)
AppendSuffixes == {0, 1}
AppendRunIds == {RunIdOrder[1], RunIdOrder[2]}
AppendTimestamps == {Iso(0, 0), Iso(0, 1)}

InitAppend == Init /\ bareDeployment /\ ~build.parseISOThrows

AppendTick == now = 0 /\ tick(1) /\ UNCHANGED <<answers, headers, reading>>

AppendIngest ==
    /\ \E run_id \in AppendRunIds, ts \in AppendTimestamps,
          rnd \in AppendSuffixes :
           ingest([ip |-> DecideIp, run_id |-> run_id, ts |-> ts],
                  [okEnv EXCEPT !.rnd = rnd])
    /\ UNCHANGED <<answers, headers, reading>>

AppendGate ==
    /\ \E run_id \in AppendRunIds :
           gate([ip |-> DecideIp, run_id |-> run_id, ts |-> NoTs], {}, TRUE)
    /\ UNCHANGED <<answers, headers, reading>>

AppendReceive == receive /\ UNCHANGED <<answers, headers, reading>>

NextAppend == AppendTick \/ AppendIngest \/ AppendGate \/ AppendReceive

SpecAppend == InitAppend /\ [][NextAppend]_vars

(***************************************************************************)
(* The gap replay on one scope, with records a few hours apart under the   *)
(* default gap of seven hours.                                             *)
(***************************************************************************)
ReplayRunIds == {RunIdOrder[1], RunIdOrder[2], RunIdOrder[3]}
ReplayTimestamps ==
    {Iso(0, 0),
     Iso(0, 5 * MinutesPerHour),
     Iso(0, DefaultMinGapHours * MinutesPerHour - 1),
     Iso(0, DefaultMinGapHours * MinutesPerHour),
     Iso(0, DefaultMinGapHours * MinutesPerHour + MinutesPerHour - 1),
     Iso(0, 8 * MinutesPerHour)}

InitReplay ==
    /\ Init
    /\ bareDeployment
    /\ ~build.parseISOThrows
    /\ config.MIN_GAP_HOURS_PER_IP = DefaultMinGapHours

ReplayIngest ==
    /\ \E run_id \in ReplayRunIds, ts \in ReplayTimestamps :
           LET body == [ip |-> DecideIp, run_id |-> run_id, ts |-> ts]
           IN  freshPath(body, 0) /\ ingest(body, okEnv)
    /\ UNCHANGED <<answers, headers, reading>>

ReplayGate ==
    /\ \E run_id \in ReplayRunIds :
           gate([ip |-> DecideIp, run_id |-> run_id, ts |-> NoTs], {}, TRUE)
    /\ UNCHANGED <<answers, headers, reading>>

ReplayReceive == receive /\ UNCHANGED <<answers, headers, reading>>

NextReplay == ReplayIngest \/ ReplayGate \/ ReplayReceive

SpecReplay == InitReplay /\ [][NextReplay]_vars

(***************************************************************************)
(* Properties of the store (checked under SpecFaults, SpecAppend and       *)
(* SpecClock).                                                             *)
(***************************************************************************)
\* C15: a record ingested without a timestamp is persisted with the receipt
\* time as its timestamp, so that a later gate orders it and measures gaps
\* from that time: no persisted record is without a timestamp.
C15_MissingTimestampIsReceiptTime ==
    \A f \in files :
        /\ f.rec.ts.kind # "none"
        /\ ~newDate(f.rec.ts).nan

\* C16: append never overwrites: with no sweep in between, listing the
\* scope returns as many records as appends succeeded, appends of one run
\* id in one millisecond included.
C16_ListReturnsEveryAppend ==
    /\ Cardinality(scopeFiles(DecideIp)) = appended
    /\ resp.op = "gate" => Cardinality(resp.seen) = appended

\* A sweep answers in this step.
sweeping == resp = NoResp /\ resp'.op = "cleanup"

\* C17: on either backend and however ingest interleaves, a sweep removes
\* no record whose age, the time since it was stored, is not greater than
\* the retention horizon.
C17_SweepKeepsUnexpired ==
    [][sweeping =>
          \A f \in files \ files' :
              now' - f.name[1] > config.RETENTION_HOURS * MinutesPerHour]_vars

\* A sweep removed a record and kept one whose age is exactly the horizon.
C17_Witness ==
    /\ resp.op = "cleanup"
    /\ appended > Cardinality(files)
    /\ \E f \in files :
           now - f.name[1] = config.RETENTION_HOURS * MinutesPerHour

\* The files under directory d of the local backend.
under(d) == {f \in files : f.dir = d[1] /\ (Len(d) = 2 => f.ip = d[2])}

\* C18: local backend: when a sweep has completed, no day or address
\* directory under ips/ is empty, whether the sweep emptied it or found it
\* empty, and the directories of every record still held are there.
C18_SweepPrunesEmptyDirectories ==
    (config.STORAGE_TYPE = "local" /\ resp.op = "cleanup") =>
        /\ \A d \in dirs : under(d) # {}
        /\ \A f \in files : <<f.dir>> \in dirs /\ <<f.dir, f.ip>> \in dirs

\* A local sweep removed the record of day 0 with its directories and kept
\* the record of day 1 with its own.
C18_Witness ==
    /\ config.STORAGE_TYPE = "local"
    /\ resp.op = "cleanup"
    /\ appended > Cardinality(files)
    /\ dirs = {<<1>>, <<1, safeIp(DecideIp)>>}

\* C19: the scope of a gate call is the address and the UTC day of the
\* record's timestamp: a record ingested with timestamp t is visible to its
\* own later gate call whatever day the server's clock shows.
C19_OwnRecordVisible ==
    (resp.op = "gate" /\ ~sweep.running) =>
        \A f \in files :
            (/\ f.rec.ip = resp.req.ip
             /\ f.rec.run_id = resp.req.run_id
             /\ f.rec.ts.kind = "iso")
                => f \in resp.seen

(***************************************************************************)
(* Properties of the authentication, of the ingest path and of the         *)
(* notification (checked under SpecService).                               *)
(***************************************************************************)
\* A response is being sent in this step.
answering == resp = NoResp /\ resp' # NoResp

\* The calls of the request that resp answers, as a set.
called == {effects[i] : i \in 1..Len(effects)}

\* The Authorization header is "Bearer <token>".
wellFormedBearer(h) ==
    Len(h.authorization) >= 2 /\ h.authorization[1] = "Bearer"
wrongToken(h) ==
    wellFormedBearer(h) /\ h.authorization[2] # config.COLLECTOR_TOKEN
validToken(h) ==
    wellFormedBearer(h) /\ h.authorization[2] = config.COLLECTOR_TOKEN

\* No route handler ran in this step: the store, the sinks and a sweep in
\* flight are as they were and the only outward call is the answer.
noHandlerRun ==
    /\ effects' = <<respond>>
    /\ UNCHANGED <<files, dirs, appended, warehouse, external, sweep>>

\* C11: a request without a well-formed bearer credential is answered 401
\* and a request with a wrong bearer token 403; for ingest, gate and cleanup
\* alike no handler runs: nothing is appended, listed or deleted and no
\* sink or notifier is called.
C11_UnauthenticatedNeverHandled ==
    [][answering =>
          /\ ~wellFormedBearer(headers') =>
                 resp'.status = 401 /\ noHandlerRun
          /\ wrongToken(headers') =>
                 resp'.status = 403 /\ noHandlerRun]_vars

\* A request with a wrong token was answered 403 while the log held a
\* record.
C11_Witness ==
    /\ resp.op = "cleanup"
    /\ wrongToken(headers)
    /\ resp.status = 403
    /\ files # {}

\* C12: with an HMAC secret configured, a request whose x-signature is not
\* the HMAC of its exact body is answered 401 although its bearer token is
\* valid, and no handler runs.
C12_BadSignatureRejected ==
    [][(/\ answering
        /\ config.HMAC_SECRET # NoSecret
        /\ validToken(headers')
        /\ headers'.signature # NoSignature
        /\ headers'.signature
               # createHmac(config.HMAC_SECRET, headers'.rawBody))
          => resp'.status = 401 /\ noHandlerRun]_vars

\* C13: an ingest request without an address or without a run id that
\* reaches the ingest route is answered 400 before anything is appended;
\* whether it reaches the route or not, the log, the warehouse and the
\* external sink stay as they were, so every persisted record has an
\* address and a run id.
C13_InvalidIngestAppendsNothing ==
    /\ [][(answering /\ resp'.op = "ingest"
              /\ (resp'.req.ip = NoIp \/ resp'.req.run_id = NoRunId))
             => /\ noHandlerRun
                /\ verifyAuth(headers', headers'.rawBody) = next
                      => resp'.status = 400]_vars
    /\ [](\A f \in files : f.rec.ip # NoIp /\ f.rec.run_id # NoRunId)
    /\ [](\A r \in warehouse \cup external :
              r.ip # NoIp /\ r.run_id # NoRunId)

\* An authenticated ingest request without a run id was answered 400 while
\* the log held a record.
C13_Witness ==
    /\ resp.op = "ingest"
    /\ validToken(headers)
    /\ resp.req.ip # NoIp
    /\ resp.req.run_id = NoRunId
    /\ resp.status = 400
    /\ files # {}

\* The request that resp answers went through the authentication.
authenticated == verifyAuth(headers, headers.rawBody) = next

verdict(r) ==
    <<r.status, r.should_run, r.reason, r.uses_today, r.last_use_utc>>

\* C20: the gate answers before it fires the notification, and a notifier
\* that fails or is slow changes nothing of should_run, reason, uses_today
\* and last_use_utc and never makes the answer an error.
C20_AnswerBeforeNotification ==
    resp.op = "gate" =>
        /\ \A i \in 1..Len(effects) :
               effects[i].call = "notify" =>
                   \E j \in 1..(i - 1) : effects[j] = respond
        /\ (authenticated /\ call("notify", FALSE) \in called) =>
               /\ resp.status = 200
               /\ verdict(resp) \in
                      {verdict(r) :
                          r \in gateResponses(headers.rawBody, resp.seen)}
               /\ resp.should_run /\ resp.reason = ""

\* The gate admitted a caller and the notification that followed failed.
C20_Witness ==
    /\ resp.op = "gate"
    /\ resp.should_run
    /\ effects = <<call("list", TRUE), respond, call("notify", FALSE)>>

(***************************************************************************)
(* Properties of the gate decision (checked under SpecDecide).             *)
(***************************************************************************)
\* The last response answers a gate request that named an address.
gateAnswered == resp.op = "gate" /\ resp.req.ip # NoIp

\* The last response answers a gate request that named an address and a
\* run id.
callerAnswered == gateAnswered /\ resp.req.run_id # NoRunId

\* The request the last response answers, as far as the gate reads it.
gateBody == [ip |-> resp.req.ip, run_id |-> resp.req.run_id, ts |-> NoTs]

seenRunIds == {f.rec.run_id : f \in resp.seen}

\* Every record of S has a timestamp that parses and a run id of its own.
wellFormed(S) ==
    \A f, g \in S :
        /\ f.rec.ts.kind = "iso"
        /\ (f # g => f.rec.run_id # g.rec.run_id)

\* Canonical order of the spec: earlier instant first, then smaller run id.
canonicallyBefore(f, g) ==
    \/ f.rec.ts.time < g.rec.ts.time
    \/ /\ f.rec.ts.time = g.rec.ts.time
       /\ rank(f.rec.run_id) < rank(g.rec.run_id)

canonicalFirst(S) == CHOOSE f \in S : \A g \in S \ {f} : canonicallyBefore(f, g)

\* Greedy replay of the spec over the records T that follow the accepted
\* record last: a record is accepted iff it is at least the gap after last.
RECURSIVE admittedAfter(_, _)
admittedAfter(last, T) ==
    IF T = {} THEN {}
    ELSE LET f == canonicalFirst(T)
         IN  IF f.rec.ts.time - last.rec.ts.time
                    >= config.MIN_GAP_HOURS_PER_IP * MinutesPerHour
             THEN {f} \cup admittedAfter(f, T \ {f})
             ELSE admittedAfter(last, T \ {f})

gapAdmitted(S) ==
    IF S = {} THEN {}
    ELSE {canonicalFirst(S)} \cup admittedAfter(canonicalFirst(S),
                                                S \ {canonicalFirst(S)})

\* 0-based position of f in the gap-admitted subsequence of S.
admittedIndex(f, S) ==
    Cardinality({g \in gapAdmitted(S) : canonicallyBefore(g, f)})

\* C1: any two gate evaluations that observe the same set of records return
\* the same should_run and the same reason, whatever order the store lists
\* the records in.
C1_SameSnapshotSameDecision ==
    gateAnswered =>
        \A r \in gateOutcomes(gateBody, listings(resp.seen)) :
            r.should_run = resp.should_run /\ r.reason = resp.reason

\* The snapshot S holds N >= 2 records of one instant with distinct run ids.
simultaneous(S) ==
    /\ Cardinality(S) >= 2
    /\ wellFormed(S)
    /\ \A f, g \in S : f.rec.ts = g.rec.ts

\* C2: with a gap of at least one hour, of N >= 2 records of one instant
\* with distinct run ids, each gated against the snapshot of all N, the one
\* with the smallest run id is admitted and every other one is denied with
\* gap_not_satisfied, never max_runs_reached.
C2_OneOfSimultaneousAdmitted ==
    (/\ gateAnswered
     /\ config.MIN_GAP_HOURS_PER_IP >= 1
     /\ simultaneous(resp.seen)
     /\ resp.req.run_id \in seenRunIds)
    => IF \A id \in seenRunIds : rank(resp.req.run_id) <= rank(id)
       THEN resp.should_run /\ resp.reason = ""
       ELSE ~resp.should_run /\ resp.reason = "gap_not_satisfied"

\* C2 witness: three simultaneous records under a quota of two, the caller
\* denied.
C2_Witness ==
    /\ gateAnswered
    /\ config.MIN_GAP_HOURS_PER_IP >= 1
    /\ config.MAX_RUNS_PER_IP_PER_DAY = 2
    /\ simultaneous(resp.seen)
    /\ Cardinality(resp.seen) = 3
    /\ resp.req.run_id \in seenRunIds
    /\ ~resp.should_run

\* C3: quota truncation comes after gap filtering: a caller whose record
\* is accepted by the gap replay is admitted when its 0-based position among
\* the accepted records is below the quota and denied with max_runs_reached,
\* not gap_not_satisfied, when it is at or beyond the quota.
C3_QuotaAfterGap ==
    (/\ gateAnswered
     /\ wellFormed(resp.seen)
     /\ \E f \in gapAdmitted(resp.seen) : f.rec.run_id = resp.req.run_id)
    => LET f == CHOOSE g \in resp.seen : g.rec.run_id = resp.req.run_id
       IN  IF admittedIndex(f, resp.seen) >= config.MAX_RUNS_PER_IP_PER_DAY
           THEN ~resp.should_run /\ resp.reason = "max_runs_reached"
           ELSE resp.should_run /\ resp.reason = ""

\* C3 witness: records at 0h, 7h and 14h under a 7h gap and a quota of two;
\* the 14h record passes the gap replay and is denied for quota.
C3_Witness ==
    /\ gateAnswered
    /\ config.MIN_GAP_HOURS_PER_IP = DefaultMinGapHours
    /\ config.MAX_RUNS_PER_IP_PER_DAY = 2
    /\ wellFormed(resp.seen)
    /\ {f.rec.ts : f \in resp.seen}
           = {Iso(0, 0), Iso(0, 7 * MinutesPerHour), Iso(0, 14 * MinutesPerHour)}
    /\ \E f \in resp.seen :
           /\ f.rec.run_id = resp.req.run_id
           /\ f.rec.ts = Iso(0, 14 * MinutesPerHour)
    /\ resp.reason = "max_runs_reached"

(***************************************************************************)
(* Properties of the gate under failures (checked under SpecFaults).       *)
(***************************************************************************)
failOpen == resp.should_run /\ resp.reason = "error_fail_open"

\* C5: when the scope of the gate request holds no record at all, the gate
\* admits the request: should_run = true with uses_today = 0.
C5_EmptyScopeAdmitted ==
    (callerAnswered /\ resp.seen = {} /\ resp.failed = {})
    => resp.should_run /\ resp.uses_today = 0

\* C6: when a store read of a gate call fails, the gate responds
\* should_run = true with reason error_fail_open, never with an error
\* response or a deny.
C6_ReadFailureFailsOpen ==
    (callerAnswered /\ resp.failed # {}) => resp.status = 200 /\ failOpen

\* An error is raised while the gate decides: the address is missing, or
\* parseISO throws on a record without a timestamp.
errorWhileDeciding ==
    \/ resp.req.ip = NoIp
    \/ build.parseISOThrows /\ \E f \in resp.seen : f.rec.ts.kind = "none"

\* C7: every gate request is answered by a non-error response whose
\* should_run is a boolean and whose reason is "", gap_not_satisfied,
\* max_runs_reached or error_fail_open; should_run = true goes with "" or
\* error_fail_open, should_run = false with gap_not_satisfied or
\* max_runs_reached; an error raised while deciding (a missing address
\* included) gives should_run = true with error_fail_open.
C7_GateAlwaysAnswers ==
    resp.op = "gate" =>
        /\ resp.status = 200
        /\ resp.should_run \in BOOLEAN
        /\ resp.reason \in {"", "gap_not_satisfied", "max_runs_reached",
                            "error_fail_open"}
        /\ resp.should_run = (resp.reason \in {"", "error_fail_open"})
        /\ errorWhileDeciding => failOpen

\* C7 witness: a gate request without an address, answered fail-open.
C7_Witness ==
    /\ resp.op = "gate"
    /\ resp.req.ip = NoIp
    /\ resp.status = 200
    /\ failOpen

\* C8: when the caller's run id is not among the records visible to the
\* gate, the gate answers should_run = false with gap_not_satisfied.
C8_UnknownRunIdDenied ==
    (callerAnswered /\ resp.req.run_id \notin seenRunIds)
    => ~resp.should_run /\ resp.reason = "gap_not_satisfied"

(***************************************************************************)
(* Properties of the answers handed out over time (checked under           *)
(* SpecHistory).                                                           *)
(***************************************************************************)
\* The answer admits its caller for a policy reason (not fail-open).
policyAdmit(a) == a.should_run /\ a.reason = ""

gapDeny(a) == ~a.should_run /\ a.reason = "gap_not_satisfied"

\* Every record of S has a timestamp that parses.
allParse(S) == \A f \in S : f.rec.ts.kind = "iso"

\* The timestamp of the caller's own record in the snapshot it was
\* answered against.
callerTs(a) == (CHOOSE f \in a.seen : f.rec.run_id = a.run_id).rec.ts

\* The positions of the history that hold a policy admit.
admits == {i \in 1..Len(answers) : policyAdmit(answers[i])}

\* C4: out-of-order arrival under a 7h gap.  A caller gated against a
\* snapshot holding only its own record is admitted; gated against a
\* snapshot holding its record and one other, less than the gap apart, the
\* caller with the earlier record is admitted and the caller with the later
\* record is denied with gap_not_satisfied, whichever arrived first.
C4_OutOfOrderArrival ==
    \A i \in 1..Len(answers) :
        LET a == answers[i]
        IN  /\ (\E f \in a.seen : a.seen = {f} /\ f.rec.run_id = a.run_id)
                  => policyAdmit(a)
            /\ \A f, g \in a.seen :
                  (/\ a.seen = {f, g}
                   /\ wellFormed(a.seen)
                   /\ f.rec.ts.time < g.rec.ts.time
                   /\ g.rec.ts.time - f.rec.ts.time
                          < config.MIN_GAP_HOURS_PER_IP * MinutesPerHour)
                  => /\ (a.run_id = f.rec.run_id => policyAdmit(a))
                     /\ (a.run_id = g.rec.run_id => gapDeny(a))

\* C4 witness: B (2h) ingested and admitted alone, then A (0h) ingested and
\* admitted over {A, B}, then B denied over {A, B}; the first answer stands.
C4_Witness ==
    /\ Len(answers) = 3
    /\ \E fA, fB \in files :
          /\ fA.rec.ts = Iso(0, 0)
          /\ fB.rec.ts = Iso(0, 2 * MinutesPerHour)
          /\ answers[1].run_id = fB.rec.run_id
          /\ answers[1].seen = {fB}
          /\ policyAdmit(answers[1])
          /\ answers[2].run_id = fA.rec.run_id
          /\ answers[2].seen = {fA, fB}
          /\ policyAdmit(answers[2])
          /\ answers[3].run_id = fB.rec.run_id
          /\ answers[3].seen = {fA, fB}
          /\ gapDeny(answers[3])

C21_CleanupReportsDeleted ==
    [][sweeping =>
          \/ /\ resp'.status = 200
             /\ resp'.deleted = Cardinality(files \ files')
          \/ resp'.status = 500]_vars

(***************************************************************************)
(* Properties of the gap replay and of ingest (checked under SpecReplay).  *)
(***************************************************************************)
\* The record of the caller in the snapshot of the last gate answer.
callerRecord == CHOOSE f \in resp.seen : f.rec.run_id = resp.req.run_id

\* The snapshot of the last gate answer holds records with timestamps that
\* parse and run ids of their own, the caller's among them.
replayed ==
    /\ callerAnswered
    /\ wellFormed(resp.seen)
    /\ resp.req.run_id \in seenRunIds

\* C22: the replay is greedy: the first record in canonical order is
\* admitted; each later record is admitted iff it is at least the gap after
\* the most recently admitted record, not after the most recent record; a
\* record that fails is skipped and is never the reference.  The caller is
\* denied with gap_not_satisfied iff its record is not admitted that way.
C22_GreedyGapReplay ==
    replayed =>
        /\ resp.reason = "gap_not_satisfied"
               <=> callerRecord \notin gapAdmitted(resp.seen)
        /\ callerRecord = canonicalFirst(resp.seen)
               => resp.should_run /\ resp.reason = ""

\* Records at 0h, 5h and 8h under a gap of 7h: the caller at 8h passes,
\* measured from 0h, the record at 5h being skipped.
C22_Witness ==
    /\ replayed
    /\ {f.rec.ts.time : f \in resp.seen}
           = {0, 5 * MinutesPerHour, 8 * MinutesPerHour}
    /\ Cardinality(resp.seen) = 3
    /\ callerRecord.rec.ts.time = 8 * MinutesPerHour
    /\ resp.should_run /\ resp.reason = ""

\* C23: the gap test compares the elapsed time in whole hours, truncated,
\* with the gap: of two records, the later one fails at G hours less one
\* minute and passes at exactly G hours and at G hours 59 minutes.
C23_GapInWholeHours ==
    (/\ replayed
     /\ Cardinality(resp.seen) = 2
     /\ callerRecord # canonicalFirst(resp.seen))
    => LET elapsed == callerRecord.rec.ts.time
                          - canonicalFirst(resp.seen).rec.ts.time
           G == config.MIN_GAP_HOURS_PER_IP
           denied == ~resp.should_run /\ resp.reason = "gap_not_satisfied"
       IN  /\ denied <=> elapsed \div MinutesPerHour < G
           /\ elapsed = G * MinutesPerHour - 1 => denied
           /\ elapsed = G * MinutesPerHour => ~denied
           /\ elapsed = G * MinutesPerHour + MinutesPerHour - 1 => ~denied

\* The caller's record is 6h59m after the only other one and is denied.
C23_Witness ==
    /\ replayed
    /\ Cardinality(resp.seen) = 2
    /\ callerRecord.rec.ts.time - canonicalFirst(resp.seen).rec.ts.time
           = DefaultMinGapHours * MinutesPerHour - 1
    /\ ~resp.should_run /\ resp.reason = "gap_not_satisfied"

\* C26: ingest never evaluates policy: a valid request is answered with the
\* same acknowledgement and its record is appended whatever records are
\* held and whatever the policy values are, also when a gate call would
\* deny that record.
C26_IngestIgnoresPolicy ==
    [][(/\ resp = NoResp
        /\ resp'.op = "ingest"
        /\ resp'.req.ip # NoIp
        /\ resp'.req.run_id # NoRunId)
       => /\ resp' = send("ingest", plain(200),
                          [ip |-> resp'.req.ip, run_id |-> resp'.req.run_id],
                          {}, {})
          /\ \E f \in files' \ files :
                 /\ f.rec.ip = resp'.req.ip
                 /\ f.rec.run_id = resp'.req.run_id
                 /\ f = newFile(f.rec, 0)
                 /\ files' = files \cup {f}]_vars

\* An ingest was acknowledged and its record is held, and the gate denies
\* that record over the records held.
C26_Witness ==
    /\ resp.op = "ingest"
    /\ resp.status = 200
    /\ \E f \in files :
           /\ f.rec.ip = resp.req.ip
           /\ f.rec.run_id = resp.req.run_id
           /\ \A r \in gateResponses([ip |-> f.rec.ip,
                                      run_id |-> f.rec.run_id, ts |-> NoTs],
                                     scopeFiles(f.rec.ip)) :
                  ~r.should_run

(***************************************************************************)
(* Properties of the canonical order (checked under SpecDecide).           *)
(***************************************************************************)
\* No two records of S have the same timestamp and the same run id.
distinctKeys(S) ==
    \A f, g \in S :
        f # g => (f.rec.ts # g.rec.ts \/ f.rec.run_id # g.rec.run_id)

\* Every result of the gate's oldest-first sort over the listings of S.
chronSorted(S) ==
    UNION {sortOutcomes(records, FALSE, consistentComparator(records, FALSE)) :
               records \in listings(S)}

\* C24: the canonical order, ascending timestamp and then ascending run id,
\* is a total order on records with distinct (timestamp, run id): sorting
\* any permutation of the records gives one and the same sequence, and
\* sorting a sorted sequence leaves it unchanged.
C24_CanonicalOrderTotal ==
    distinctKeys(files) =>
        /\ Cardinality(chronSorted(files)) = 1
        /\ \A sorted \in chronSorted(files) :
               sortOutcomes(sorted, FALSE,
                            consistentComparator(sorted, FALSE)) = {sorted}

(***************************************************************************)
(* Properties of the event log (checked under SpecAppend and SpecClock).   *)
(***************************************************************************)
\* C25: a gate call never changes the event log, and no operation changes
\* a persisted record in place: a record appears through an ingest only and
\* disappears through a retention sweep only.
C25_LogAppendOnly ==
    [][/\ (resp = NoResp /\ resp'.op = "gate") => files' = files
       /\ files' \ files # {} => (resp = NoResp /\ resp'.op = "ingest")
       /\ files \ files' # {} => sweeping
       /\ \A f \in files, g \in files' : samePath(f, g) => f = g]_vars

(***************************************************************************)
(* A gate call and a retention sweep at once.  On the GCS backend the gate *)
(* awaits the listing and then the downloads, and the sweep awaits its     *)
(* deletions, so the steps of the two interleave; on the local backend     *)
(* both run to their end without an await.  The records are stamped and    *)
(* filed under day 1 ahead of time, so that they are in the scope of a     *)
(* gate call on day 1 when the sweep finds them expired.                   *)
(***************************************************************************)
RaceRunIds == {RunIdOrder[1], RunIdOrder[2]}
RaceTimestamps == {Iso(1, MinutesPerDay), Iso(1, MinutesPerDay + 1)}

InitRace ==
    /\ Init
    /\ bareDeployment
    /\ ~build.parseISOThrows
    /\ config.MIN_GAP_HOURS_PER_IP = 0

RaceTick ==
    /\ now = 0
    /\ tick(DefaultRetentionHours * MinutesPerHour + 1)
    /\ UNCHANGED <<answers, headers, reading>>

RaceIngest ==
    /\ \E run_id \in RaceRunIds, ts \in RaceTimestamps :
           LET body == [ip |-> DecideIp, run_id |-> run_id, ts |-> ts]
           IN  freshPath(body, 0) /\ ingest(body, okEnv)
    /\ UNCHANGED <<answers, headers, reading>>

RaceGateList ==
    /\ \E run_id \in RaceRunIds :
           gateList([ip |-> DecideIp, run_id |-> run_id, ts |-> NoTs])
    /\ UNCHANGED <<answers, headers>>

RaceGateRead ==
    /\ \E failed \in SUBSET reading.listed : gateRead(failed, TRUE)
    /\ UNCHANGED <<answers, headers>>

RaceCleanup ==
    /\ cleanup(NoHeaders, {})
    /\ UNCHANGED <<answers, headers, reading>>

RaceCleanupDone ==
    /\ \E undeleted \in SUBSET sweep.victims : cleanupDone(undeleted)
    /\ UNCHANGED <<answers, reading>>

RaceReceive == receive /\ UNCHANGED <<answers, headers, reading>>

NextRace ==
    \/ RaceTick
    \/ RaceIngest
    \/ RaceGateList
    \/ RaceGateRead
    \/ RaceCleanup
    \/ RaceCleanupDone
    \/ RaceReceive

SpecRace == InitRace /\ [][NextRace]_vars

\* C27: when a sweep deletes a record after a gate call listed it and
\* before the gate call read it, the gate does not fail: the record is
\* absent from what it read, and its answer is one the gate gives over the
\* listed records that are still held (and whose read did not fail).
C27_ReadSurvivesSweep ==
    [][(/\ reading.active
        /\ resp = NoResp
        /\ resp'.op = "gate"
        /\ \E g \in reading.listed : \A f \in files : ~samePath(f, g))
       => LET held == {f \in files :
                          \E g \in reading.listed : samePath(f, g)}
          IN  /\ resp'.status = 200
              /\ resp'.reason # "error_fail_open"
              /\ reading.listed \ held \subseteq resp'.failed
              /\ resp'.seen = held \ resp'.failed
              /\ verdict(resp')
                     \in {verdict(r) :
                             r \in gateResponses(reading.body, resp'.seen)}]_vars

\* A gate call listed two records, a sweep deleted one of them, and the
\* gate call answered over the other.
C27_Witness ==
    /\ resp.op = "gate"
    /\ Cardinality(resp.seen) = 1
    /\ resp.seen \subseteq files
    /\ Cardinality(resp.failed) = 1
    /\ resp.failed \cap files = {}
    /\ appended = 2
    /\ resp.uses_today = 1

(***************************************************************************)
(* Properties of repeated and failing sweeps (checked under SpecClock).    *)
(***************************************************************************)
\* The clock reading of the sweep that answers in this step.
sweepClock == IF config.STORAGE_TYPE = "local" THEN now ELSE sweep.now

\* C28: sweeps are idempotent: once a sweep has completed, its deletions
\* done, a second sweep at the same clock reading with no append in between
\* deletes nothing and leaves files and directories as the first left them.
C28_SweepIdempotent ==
    [][(/\ sweeping
        /\ effects'[1] = call("sweep", TRUE)
        /\ now' = sweepClock)
       => /\ \A f \in files' : ~expired(f)'
          /\ config.STORAGE_TYPE = "local"
                => \A left \in walkFiles({})' :
                       left = files' /\ walkDirs(left)' = dirs']_vars

\* A sweep has completed that deleted a record and kept another, and the
\* clock has not moved: nothing held is expired.
C28_Witness ==
    /\ resp.op = "cleanup"
    /\ effects = <<call("sweep", TRUE), respond>>
    /\ appended > Cardinality(files)
    /\ files # {}
    /\ \A f \in files : ~expired(f)

\* C29: when the deletion of one expired item fails during a sweep, on the
\* local and on the networked backend, the sweep still deletes every other
\* expired item, and the cleanup request does not report a failure.
C29_SweepSurvivesDeleteFailure ==
    [][sweeping =>
          LET due == IF config.STORAGE_TYPE = "local"
                     THEN {f \in files : expired(f)}
                     ELSE sweep.victims
          IN  /\ resp'.status = 200
              /\ (due \ resp'.failed) \cap files' = {}]_vars

\* C30: the local and the networked backend implement the same semantics:
\* over the same records and with the same reads failing, a listing
\* returns the same set of records on both; in particular one unreadable or
\* corrupt record is handled the same way by both.
C30_BackendsListAlike ==
    gateAnswered =>
        readRecords("local", resp.req.ip, resp.failed)
            = readRecords("gcs", resp.req.ip, resp.failed)

(***************************************************************************)
(* Listings over several scopes: two addresses, two days, either backend,  *)
(* reads that fail, the whole backend included.                            *)
(***************************************************************************)
ScopeIps == {DecideIp, "10.0.0/1"}
ScopeRunIds == {RunIdOrder[1], RunIdOrder[2]}
ScopeTimestamps == {NoTs, Iso(1, MinutesPerDay)}

InitScopes == InitClock

ScopeTick ==
    /\ now = 0
    /\ tick(MinutesPerDay)
    /\ UNCHANGED <<answers, headers, reading>>

ScopeIngest ==
    /\ \E ip \in ScopeIps, run_id \in ScopeRunIds, ts \in ScopeTimestamps :
           LET body == [ip |-> ip, run_id |-> run_id, ts |-> ts]
           IN  freshPath(body, 0) /\ ingest(body, okEnv)
    /\ UNCHANGED <<answers, headers, reading>>

ScopeGate ==
    /\ \E ip \in ScopeIps, run_id \in ScopeRunIds, failed \in SUBSET files :
           gate([ip |-> ip, run_id |-> run_id, ts |-> NoTs], failed, TRUE)
    /\ UNCHANGED <<answers, headers, reading>>

ScopeReceive == receive /\ UNCHANGED <<answers, headers, reading>>

NextScopes == ScopeTick \/ ScopeIngest \/ ScopeGate \/ ScopeReceive

SpecScopes == InitScopes /\ [][NextScopes]_vars

\* C31: a listing never passes a backend error on to the gate: the gate
\* answers with its decision over the records that were read, which are
\* none when the backend is unreachable or the listing fails; and no record
\* of another scope, another address or another day, is ever returned.
C31_ListNeverFails ==
    [][(resp = NoResp /\ resp'.op = "gate")
       => LET scope == {f \in files :
                           /\ f.ip = safeIp(resp'.req.ip)
                           /\ f.dir = now \div MinutesPerDay}
          IN  /\ resp'.status = 200
              /\ resp'.reason # "error_fail_open"
              /\ resp'.seen \subseteq scope \ resp'.failed
              /\ scope \subseteq resp'.failed => resp'.seen = {}
              /\ verdict(resp')
                     \in {verdict(r) :
                             r \in gateResponses(
                                      [ip |-> resp'.req.ip,
                                       run_id |-> resp'.req.run_id,
                                       ts |-> NoTs], resp'.seen)}]_vars

\* Records are held for the caller's scope, for another address and for
\* another day; every read of the caller's scope failed and the gate
\* answered over no record.
C31_Witness ==
    /\ resp.op = "gate"
    /\ resp.status = 200
    /\ resp.seen = {}
    /\ resp.failed # {}
    /\ resp.failed = scopeFiles(resp.req.ip)
    /\ \E f \in files : f.ip # safeIp(resp.req.ip)
    /\ \E f \in files : f.ip = safeIp(resp.req.ip) /\ f.dir # getTodayDateString

(***************************************************************************)
(* Properties of the response fields and of the replay over a snapshot     *)
(* (checked under SpecFaults, SpecDecide and SpecReplay).                  *)
(***************************************************************************)
\* C32: in every gate response that is not a fail-open error, uses_today is
\* the number of records visible for the scope, the caller's own and the
\* denied ones included, and last_use_utc is the largest timestamp among
\* them, or null when there is none.
C32_UsesTodayAndLastUse ==
    (gateAnswered /\ resp.reason # "error_fail_open") =>
        /\ resp.uses_today = Cardinality(resp.seen)
        /\ IF resp.seen = {} THEN resp.last_use_utc = NullTs
           ELSE /\ resp.last_use_utc \in {f.rec.ts : f \in resp.seen}
                /\ resp.last_use_utc.kind # "none"
                /\ \A f \in resp.seen :
                       f.rec.ts.kind = "iso" =>
                           /\ resp.last_use_utc.kind = "iso"
                           /\ resp.last_use_utc.time >= f.rec.ts.time

\* The records of S have run ids of their own.
distinctRunIds(S) == \A f, g \in S : f # g => f.rec.run_id # g.rec.run_id

\* C33: with a gap of 0 hours every record passes the gap replay: over a
\* snapshot of n records with distinct run ids the first min(n, max) records
\* in canonical order are admitted and every other one is denied with
\* max_runs_reached; no caller whose run id is visible is denied with
\* gap_not_satisfied.
C33_ZeroGapQuotaOnly ==
    (/\ callerAnswered
     /\ config.MIN_GAP_HOURS_PER_IP = 0
     /\ distinctRunIds(resp.seen)
     /\ resp.req.run_id \in seenRunIds)
    => /\ resp.reason # "gap_not_satisfied"
       /\ IF Cardinality({g \in resp.seen :
                             canonicallyBefore(g, callerRecord)})
                 < config.MAX_RUNS_PER_IP_PER_DAY
          THEN resp.should_run /\ resp.reason = ""
          ELSE ~resp.should_run /\ resp.reason = "max_runs_reached"

\* A gate request for the run id of record f.
requestFor(f) == [ip |-> f.rec.ip, run_id |-> f.rec.run_id, ts |-> NoTs]

\* The gate admits the caller: should_run with the empty reason.
admitting(r) == r.should_run /\ r.reason = ""

\* The records of the snapshot S the gate admits in some evaluation over S,
\* and those it admits in every evaluation over S.
mayAdmit(S) ==
    {f \in S : \E r \in gateResponses(requestFor(f), S) : admitting(r)}
mustAdmit(S) ==
    {f \in S : \A r \in gateResponses(requestFor(f), S) : admitting(r)}

\* C34: for every non-empty snapshot the set of records the gate would
\* admit over it has at most max elements, contains the canonically first
\* record, and any two consecutive admitted records, hence any two, are at
\* least gap whole hours apart.
C34_AdmittedSetOfSnapshot ==
    (gateAnswered /\ resp.seen # {} /\ distinctRunIds(resp.seen)) =>
        /\ Cardinality(mayAdmit(resp.seen)) <= config.MAX_RUNS_PER_IP_PER_DAY
        /\ canonicalFirst(resp.seen) \in mustAdmit(resp.seen)
        /\ \A f, g \in mayAdmit(resp.seen) :
               (f # g /\ canonicallyBefore(f, g)) =>
                   (g.rec.ts.time - f.rec.ts.time) \div MinutesPerHour
                       >= config.MIN_GAP_HOURS_PER_IP

\* The instant a record is ordered by: its timestamp, and the time of its
\* receipt when it was sent without one.
stamp(f) == IF f.rec.ts.kind = "none" THEN f.name[1] ELSE f.rec.ts.time

\* Record n sorts after record f in canonical order.
sortsAfter(n, f) ==
    \/ stamp(f) < stamp(n)
    \/ stamp(f) = stamp(n) /\ rank(f.rec.run_id) < rank(n.rec.run_id)

\* What the gate can answer, should_run and reason, to the run id of f over
\* the snapshot S.
verdictsFor(f, S) ==
    {<<r.should_run, r.reason>> : r \in gateResponses(requestFor(f), S)}

\* C35: prefix stability: the verdict for a run id depends only on the
\* records at or before it in canonical order: appending a record that
\* sorts after every record of the snapshot changes should_run and reason
\* for no run id already visible.
C35_PrefixStability ==
    [][(/\ resp = NoResp
        /\ resp'.op = "ingest"
        /\ distinctRunIds(files')
        /\ \E n \in files' :
               /\ n \notin files
               /\ files' = files \cup {n}
               /\ \A f \in files : sortsAfter(n, f))
       => \A f \in files : verdictsFor(f, files') = verdictsFor(f, files)]_vars

(***************************************************************************)
(* Callers that report first and ask afterwards, some of them without a    *)
(* timestamp of their own, with the answers they were given kept.          *)
(***************************************************************************)
ArrivalRunIds == {RunIdOrder[1], RunIdOrder[2], RunIdOrder[3]}
ArrivalTimestamps == {NoTs, Iso(0, DefaultMinGapHours * MinutesPerHour)}

InitArrival == InitHistory

ArrivalIngest ==
    /\ \E run_id \in ArrivalRunIds, ts \in ArrivalTimestamps :
           LET body == [ip |-> DecideIp, run_id |-> run_id, ts |-> ts]
           IN  freshPath(body, 0) /\ ingest(body, okEnv)
    /\ UNCHANGED <<answers, headers, reading>>

ArrivalGate ==
    /\ Len(answers) < MaxAnswers
    /\ \E run_id \in {f.rec.run_id : f \in files} :
           gate([ip |-> DecideIp, run_id |-> run_id, ts |-> NoTs], {}, TRUE)
    /\ UNCHANGED <<answers, headers, reading>>

ArrivalReceive ==
    /\ receive
    /\ UNCHANGED <<headers, reading>>
    /\ answers' = IF resp.op = "gate" THEN Append(answers, answer)
                  ELSE answers

NextArrival == ArrivalIngest \/ ArrivalGate \/ ArrivalReceive

SpecArrival == InitArrival /\ [][NextArrival]_vars

\* The record in the log of the caller answered by a.
recordOf(a) == CHOOSE f \in files : f.rec.run_id = a.run_id

\* Every answer so far was given over a snapshot that held every record of
\* the log that sorts canonically before the caller's own.
arrivedInOrder ==
    \A i \in 1..Len(answers) :
        {f \in files : sortsAfter(recordOf(answers[i]), f)}
            \subseteq answers[i].seen

\* The records a replay over the whole log S admits.
replayAdmitted(S) ==
    {f \in gapAdmitted(S) :
        admittedIndex(f, S) < config.MAX_RUNS_PER_IP_PER_DAY}

\* The records whose callers were answered should_run with reason "".
answeredAdmitted ==
    {recordOf(answers[i]) : i \in {j \in 1..Len(answers) :
                                      policyAdmit(answers[j])}}

\* C36: in-order arrival gives the global guarantee: when every caller
\* ingests before it gates, run ids are distinct, no sweep runs and every
\* snapshot holds all the records that sort before the caller's, the runs
\* admitted over the whole execution number at most max, are pairwise at
\* least the gap in whole hours apart, and are the ones a replay over the
\* final log admits.
C36_InOrderGlobalGuarantee ==
    (distinctRunIds(files) /\ arrivedInOrder) =>
        /\ Cardinality(answeredAdmitted) <= config.MAX_RUNS_PER_IP_PER_DAY
        /\ \A f, g \in answeredAdmitted :
               (f # g /\ sortsAfter(g, f)) =>
                   (stamp(g) - stamp(f)) \div MinutesPerHour
                       >= config.MIN_GAP_HOURS_PER_IP
        /\ \A i \in 1..Len(answers) :
               policyAdmit(answers[i])
                   <=> recordOf(answers[i]) \in replayAdmitted(files)

(***************************************************************************)
(* Properties of the request's own fields (checked under SpecFaults and    *)
(* SpecService).                                                           *)
(***************************************************************************)
\* What the gate can answer, should_run and reason, over the snapshot of the
\* last answer to the same address and run id sent with the timestamp ts.
verdictsWith(ts) ==
    {<<r.should_run, r.reason>> :
        r \in gateResponses([ip |-> resp.req.ip, run_id |-> resp.req.run_id,
                             ts |-> ts], resp.seen)}

\* C37: the verdict depends on the request through the address and the run
\* id only: over the same snapshot, requests with the same address and run
\* id and different or missing caller timestamps get the same should_run
\* and reason.
C37_VerdictIgnoresCallerTs ==
    gateAnswered =>
        \A ts \in CallerTimestamps : verdictsWith(ts) = verdictsWith(NoTs)

\* A request arrives in this step: it is answered, or it starts a sweep.
arriving ==
    /\ resp = NoResp
    /\ ~sweep.running
    /\ resp' # NoResp \/ sweep'.running

\* The step is the one of the route handler of op on the request's body.
handledBy(op) ==
    CASE op = "ingest" ->
             \E writeOk \in BOOLEAN, bqOk \in BOOLEAN, sinkOk \in BOOLEAN :
                 ingest(headers'.rawBody,
                        [okEnv EXCEPT !.writeOk = writeOk, !.bqOk = bqOk,
                                      !.sinkOk = sinkOk])
      [] op = "gate" ->
             \E notifyOk \in BOOLEAN : gate(headers'.rawBody, {}, notifyOk)
      [] op = "cleanup" -> cleanup(headers', {})

\* C38: with an HMAC secret configured, a request with a valid bearer token
\* and no x-signature header at all is not checked for a signature: it
\* reaches the route handler; a request with a valid token is answered 401
\* only when it carries a signature.
C38_NoSignatureSkipsHmac ==
    [][/\ (/\ arriving
           /\ config.HMAC_SECRET # NoSecret
           /\ validToken(headers')
           /\ headers'.signature = NoSignature)
          => \E op \in {"ingest", "gate", "cleanup"} :
                 /\ resp' # NoResp => resp'.op = op
                 /\ handledBy(op)
       /\ (answering /\ validToken(headers') /\ resp'.status = 401)
          => config.HMAC_SECRET # NoSecret
             /\ headers'.signature # NoSignature]_vars

\* With a secret configured, an ingest request with a valid token and no
\* signature was acknowledged and its record is in the log.
C38_Witness ==
    /\ config.HMAC_SECRET # NoSecret
    /\ resp.op = "ingest"
    /\ resp.status = 200
    /\ validToken(headers)
    /\ headers.signature = NoSignature
    /\ \E f \in files : f.rec.run_id = resp.req.run_id

====
